---- MODULE Spec2Model ----
(***************************************************************************)
(* The two CSV export endpoints of bluecrew-v6:                            *)
(*   src/src/app/api/candidates/cvs/route.ts   (candidates)                *)
(*   src/unnamed/part_000                      (campaign applications)     *)
(* Both are one GET handler: authorize, parse the query parameters, query  *)
(* the database, filter by file reference, resolve one signed URL per      *)
(* retained row concurrently (Promise.all), serialize as CSV, respond.     *)
(*                                                                         *)
(* Strings are sequences of one-character strings, so that trim,           *)
(* startsWith, parseInt and the CSV quoting are computed character by      *)
(* character.  A JavaScript value is a record [t, v]: its type tag and     *)
(* its payload.                                                            *)
(***************************************************************************)
EXTENDS Integers, Sequences, FiniteSets, TLC

VARIABLES
    env,              \* process.env: [NODE_ENV, CAMPAIGN_EXPORT_SECRET]
    endpoint,         \* which of the two route handlers serves the request
    searchParams,     \* the request's query parameters (null when absent)
    table,            \* the rows the database holds for the requested role
    pc,               \* position of the handler
    role,             \* normalized role / position
    includeMissing,   \* the parsed flag
    bucket,           \* the storage container
    expiresInSeconds, \* the resolved signed-URL lifetime
    queryResult,      \* what the database answered: "none", "error", "data", "null"
    candidates,       \* data || []
    filtered,         \* the rows kept by the file-reference filter
    results,          \* one slot per retained row: the async mapper's locals
    dbQueries,        \* database queries issued so far
    storeCalls,       \* createSignedUrl calls issued so far
    signOutcome,      \* per retained row, what createSignedUrl answered
    settleOrder,      \* the rows in the order their createSignedUrl answered
    responses,        \* the responses the handler has returned
    value,            \* csvEscape's argument (encoder specification)
    cell              \* csvEscape's result   (encoder specification)

vars == <<env, endpoint, searchParams, table, pc, role, includeMissing, bucket,
          expiresInSeconds, queryResult, candidates, filtered, results,
          dbQueries, storeCalls, signOutcome, settleOrder, responses, value,
          cell>>

requestVars == <<env, endpoint, searchParams, table>>
handlerVars == <<pc, role, includeMissing, bucket, expiresInSeconds, queryResult,
                 candidates, filtered, results, dbQueries, storeCalls,
                 signOutcome, settleOrder, responses>>
encoderVars == <<value, cell>>

----------------------------------------------------------------------------
(* Bounds of the model.                                                    *)

\* longest string handed to csvEscape in the encoder specification
MaxCellLen == 3
\* longest expiresInSeconds / expiresInDays string enumerated exhaustively
MaxParamLen == 3
\* most rows the database returns for one request
MaxRows == 2
\* numbers are kept exact up to this ceiling and saturate there; it lies
\* above MAX_EXPIRES_IN_SECONDS, and every use of a larger number in the
\* code is Math.min(n, MAX_EXPIRES_IN_SECONDS)
NumCeil == 2000000000

----------------------------------------------------------------------------
(* JavaScript values and strings.                                          *)

Null == [t |-> "null", v |-> <<>>]
Undefined == [t |-> "undefined", v |-> <<>>]
Str(s) == [t |-> "string", v |-> s]
Num(n) == [t |-> "number", v |-> n]
Bool(b) == [t |-> "boolean", v |-> b]

\* ToBoolean, as used by `if (x)`, `!x` and `x || y`
Truthy(x) ==
    CASE x.t = "string" -> x.v # <<>>
      [] x.t = "number" -> x.v # 0
      [] x.t = "boolean" -> x.v
      [] OTHER -> FALSE

\* x || y
OrElse(x, y) == IF Truthy(x) THEN x ELSE y

StringsUpTo(alphabet, n) == UNION {[1..k -> alphabet] : k \in 0..n}

DigitChars == <<"0", "1", "2", "3", "4", "5", "6", "7", "8", "9">>
IsDigit(c) == \E d \in 1..10 : DigitChars[d] = c
DigitVal(c) == (CHOOSE d \in 1..10 : DigitChars[d] = c) - 1

\* the decimal digits of a natural number
RECURSIVE NatToString(_)
NatToString(n) ==
    IF n < 10 THEN <<DigitChars[n + 1]>>
    ELSE NatToString(n \div 10) \o <<DigitChars[(n % 10) + 1]>>

\* String(value)
String(x) ==
    CASE x.t = "string" -> x.v
      [] x.t = "number" -> IF x.v < 0 THEN <<"-">> \o NatToString(-x.v)
                           ELSE NatToString(x.v)
      [] x.t = "boolean" -> IF x.v THEN <<"t", "r", "u", "e">>
                            ELSE <<"f", "a", "l", "s", "e">>
      [] x.t = "null" -> <<"n", "u", "l", "l">>
      [] OTHER -> <<"u", "n", "d", "e", "f", "i", "n", "e", "d">>

\* the white space String.prototype.trim and parseInt strip (the part of it
\* that occurs in the model's alphabet)
IsWhiteSpace(c) == c \in {" ", "\t", "\n", "\r"}

RECURSIVE TrimStart(_)
TrimStart(s) ==
    IF s # <<>> /\ IsWhiteSpace(Head(s)) THEN TrimStart(Tail(s)) ELSE s

RECURSIVE TrimEnd(_)
TrimEnd(s) ==
    IF s # <<>> /\ IsWhiteSpace(s[Len(s)])
    THEN TrimEnd(SubSeq(s, 1, Len(s) - 1))
    ELSE s

\* String.prototype.trim
trim(s) == TrimEnd(TrimStart(s))

\* String.prototype.startsWith
startsWith(s, prefix) ==
    Len(s) >= Len(prefix) /\ SubSeq(s, 1, Len(prefix)) = prefix

----------------------------------------------------------------------------
(* CSV Encoder: csvEscape.                                                 *)

\* /["\n\r,]/.test(str)
NeedsQuoting(str) == \E i \in 1..Len(str) : str[i] \in {"\"", "\n", "\r", ","}

\* str.replace(/"/g, '""')
RECURSIVE DoubleQuotes(_)
DoubleQuotes(str) ==
    IF str = <<>> THEN <<>>
    ELSE (IF Head(str) = "\"" THEN <<"\"", "\"">> ELSE <<Head(str)>>)
         \o DoubleQuotes(Tail(str))

\* faulty variant: the carriage return is missing from the character class
csvEscapeNoCR(x) ==
    IF x.t \in {"null", "undefined"} THEN <<>>
    ELSE LET str == String(x)
         IN IF \E i \in 1..Len(str) : str[i] \in {"\"", "\n", ","}
            THEN <<"\"">> \o DoubleQuotes(str) \o <<"\"">>
            ELSE str

csvEscape(x) ==
    IF x.t \in {"null", "undefined"} THEN <<>>
    ELSE LET str == String(x)
         IN IF NeedsQuoting(str)
            THEN <<"\"">> \o DoubleQuotes(str) \o <<"\"">>
            ELSE str

----------------------------------------------------------------------------
(* Expiry Parameter Resolver: parseExpiresInSeconds.                       *)

MAX_EXPIRES_IN_SECONDS == 60 * 60 * 24 * 365
DEFAULT_EXPIRES_IN_SECONDS == 60 * 60 * 24 * 365

Min(a, b) == IF a <= b THEN a ELSE b

\* a number: NaN, or an integer (exact below NumCeil)
NaN == [nan |-> TRUE, n |-> 0]
Finite(n) == [nan |-> FALSE, n |-> n]

\* Number.isFinite; an Infinity cannot arise: parseInt overflows to Infinity
\* only beyond 308 digits
isFinite(x) == ~x.nan

\* the longest prefix of decimal digits
RECURSIVE DigitPrefix(_)
DigitPrefix(s) ==
    IF s # <<>> /\ IsDigit(Head(s)) THEN <<Head(s)>> \o DigitPrefix(Tail(s))
    ELSE <<>>

\* the value of a digit string, most significant digit first
RECURSIVE DigitsValue(_, _)
DigitsValue(acc, ds) ==
    IF ds = <<>> THEN acc
    ELSE DigitsValue(IF acc > (NumCeil - 9) \div 10 THEN NumCeil
                     ELSE acc * 10 + DigitVal(Head(ds)),
                     Tail(ds))

\* Number.parseInt(s, 10): leading white space, an optional sign, then the
\* longest run of decimal digits; NaN when there is none
parseInt(s) ==
    LET t == TrimStart(s)
        signed == t # <<>> /\ Head(t) \in {"+", "-"}
        digits == DigitPrefix(IF signed THEN Tail(t) ELSE t)
        magnitude == DigitsValue(0, digits)
    IN IF digits = <<>> THEN NaN
       ELSE Finite(IF signed /\ Head(t) = "-" THEN -magnitude ELSE magnitude)

\* parsed * 24 * 60 * 60, for parsed > 0
DaysToSeconds(parsed) ==
    IF parsed > NumCeil \div (24 * 60 * 60) THEN NumCeil
    ELSE parsed * 24 * 60 * 60

\* faulty variant: an unusable expiresInSeconds returns the default at once
parseExpiresNoFallThrough(sp) ==
    LET secondsParam == sp.expiresInSeconds
        daysParam == sp.expiresInDays
        parsedSeconds == parseInt(secondsParam.v)
        parsedDays == parseInt(daysParam.v)
    IN IF Truthy(secondsParam)
       THEN IF isFinite(parsedSeconds) /\ parsedSeconds.n > 0
            THEN Min(parsedSeconds.n, MAX_EXPIRES_IN_SECONDS)
            ELSE DEFAULT_EXPIRES_IN_SECONDS
       ELSE IF Truthy(daysParam) /\ isFinite(parsedDays) /\ parsedDays.n > 0
            THEN Min(DaysToSeconds(parsedDays.n), MAX_EXPIRES_IN_SECONDS)
            ELSE DEFAULT_EXPIRES_IN_SECONDS

parseExpiresInSeconds(sp) ==
    LET secondsParam == sp.expiresInSeconds
        daysParam == sp.expiresInDays
        parsedSeconds == parseInt(secondsParam.v)
        parsedDays == parseInt(daysParam.v)
    IN IF Truthy(secondsParam) /\ isFinite(parsedSeconds) /\ parsedSeconds.n > 0
       THEN Min(parsedSeconds.n, MAX_EXPIRES_IN_SECONDS)
       ELSE IF Truthy(daysParam) /\ isFinite(parsedDays) /\ parsedDays.n > 0
            THEN Min(DaysToSeconds(parsedDays.n), MAX_EXPIRES_IN_SECONDS)
            ELSE DEFAULT_EXPIRES_IN_SECONDS

----------------------------------------------------------------------------
(* String constants of the handlers.                                       *)

DEFAULT_ROLE ==
    <<"e", "l", "e", "k", "t", "r", "i", "k", "e", "r">>
DEFAULT_POSITION ==
    <<"e", "l", "e", "k", "t", "r", "i", "k", "e", "r">>
DEFAULT_BUCKET ==
    <<"c", "a", "n", "d", "i", "d", "a", "t", "e", "-", "c", "v", "s">>
TRUE_STRING ==
    <<"t", "r", "u", "e">>
HTTP ==
    <<"h", "t", "t", "p", ":", "/", "/">>
HTTPS ==
    <<"h", "t", "t", "p", "s", ":", "/", "/">>

\* the text of each column name
HeaderText ==
    [application_id |-> <<"a", "p", "p", "l", "i", "c", "a", "t", "i",
         "o", "n", "_", "i", "d">>,
     candidate_id |-> <<"c", "a", "n", "d", "i", "d", "a", "t", "e",
         "_", "i", "d">>,
     name |-> <<"n", "a", "m", "e">>,
     email |-> <<"e", "m", "a", "i", "l">>,
     phone |-> <<"p", "h", "o", "n", "e">>,
     position |-> <<"p", "o", "s", "i", "t", "i", "o", "n">>,
     role |-> <<"r", "o", "l", "e">>,
     segment |-> <<"s", "e", "g", "m", "e", "n", "t">>,
     status |-> <<"s", "t", "a", "t", "u", "s">>,
     created_at |-> <<"c", "r", "e", "a", "t", "e", "d", "_", "a",
         "t">>,
     cv_key |-> <<"c", "v", "_", "k", "e", "y">>,
     cv_filename |-> <<"c", "v", "_", "f", "i", "l", "e", "n", "a",
         "m", "e">>,
     cv_download_url |-> <<"c", "v", "_", "d", "o", "w", "n", "l", "o",
         "a", "d", "_", "u", "r", "l">>,
     cv_error |-> <<"c", "v", "_", "e", "r", "r", "o", "r">>]

\* const headers = [...], by endpoint
headers ==
    IF endpoint = "candidates"
    THEN <<"candidate_id", "name", "email", "phone", "role", "status",
           "created_at", "cv_key", "cv_download_url", "cv_error">>
    ELSE <<"application_id", "name", "email", "phone", "position", "segment",
           "status", "created_at", "cv_key", "cv_filename", "cv_download_url",
           "cv_error">>

UpperCase ==
    <<"A", "B", "C", "D", "E", "F", "G", "H", "I", "J", "K", "L", "M",
      "N", "O", "P", "Q", "R", "S", "T", "U", "V", "W", "X", "Y", "Z">>
LowerCase ==
    <<"a", "b", "c", "d", "e", "f", "g", "h", "i", "j", "k", "l", "m",
      "n", "o", "p", "q", "r", "s", "t", "u", "v", "w", "x", "y", "z">>

\* String.prototype.toLowerCase (ASCII letters)
toLowerCase(s) ==
    [i \in 1..Len(s) |->
        IF \E k \in 1..26 : UpperCase[k] = s[i]
        THEN LowerCase[CHOOSE k \in 1..26 : UpperCase[k] = s[i]]
        ELSE s[i]]

\* Array.prototype.join
RECURSIVE join(_, _)
join(parts, sep) ==
    IF parts = <<>> THEN <<>>
    ELSE IF Len(parts) = 1 THEN parts[1]
    ELSE parts[1] \o sep \o join(Tail(parts), sep)

----------------------------------------------------------------------------
(* Authorization Check.                                                    *)

\* faulty variant: the `if (!exportSecret) return false` guard is missing
isAuthorizedNoGuard(secret) ==
    \/ env.NODE_ENV = "development"
    \/ secret = env.CAMPAIGN_EXPORT_SECRET

isAuthorized(secret) ==
    IF env.NODE_ENV = "development" THEN TRUE
    ELSE LET exportSecret == env.CAMPAIGN_EXPORT_SECRET
         IN IF ~Truthy(exportSecret) THEN FALSE
            ELSE secret = exportSecret

----------------------------------------------------------------------------
(* Parameter parsing.                                                      *)

\* faulty variant: the role is lower-cased but not trimmed
NormalizeRoleNoTrim(sp) ==
    IF endpoint = "candidates"
    THEN toLowerCase(OrElse(sp.role, OrElse(sp.position, Str(DEFAULT_ROLE))).v)
    ELSE toLowerCase(OrElse(sp.position, Str(DEFAULT_POSITION)).v)

\* (searchParams.get("role") || searchParams.get("position") || DEFAULT_ROLE)
\*   .trim().toLowerCase()            in the candidates handler,
\* (searchParams.get("position") || DEFAULT_POSITION).trim().toLowerCase()
\*                                    in the campaign handler
NormalizeRole(sp) ==
    IF endpoint = "candidates"
    THEN toLowerCase(trim(OrElse(sp.role, OrElse(sp.position, Str(DEFAULT_ROLE))).v))
    ELSE toLowerCase(trim(OrElse(sp.position, Str(DEFAULT_POSITION)).v))

\* searchParams.get("includeMissing") === "true"
ParseIncludeMissing(sp) == sp.includeMissing = Str(TRUE_STRING)

\* (searchParams.get("bucket") || "candidate-cvs").trim()
ParseBucket(sp) == trim(OrElse(sp.bucket, Str(DEFAULT_BUCKET)).v)

----------------------------------------------------------------------------
(* Filter and the per-row mapper.                                          *)

\* faulty variant: the filter compares the untrimmed reference with ""
FilterRowsNoTrim(rows, keepAll) ==
    IF keepAll THEN rows
    ELSE SelectSeq(rows, LAMBDA r : Truthy(r.ref))

\* includeMissing ? candidates
\*   : candidates.filter((c) => c.cv_key && c.cv_key.trim() !== "")
FilterRows(rows, keepAll) ==
    IF keepAll THEN rows
    ELSE SelectSeq(rows, LAMBDA r : Truthy(r.ref) /\ trim(r.ref.v) # <<>>)

\* const cvKey = candidate.cv_key?.trim() || ""
CvKey(row) == IF row.ref.t = "string" THEN trim(row.ref.v) ELSE <<>>

\* cvKey.startsWith("http://") || cvKey.startsWith("https://")
IsAbsoluteUrl(cvKey) == startsWith(cvKey, HTTP) \/ startsWith(cvKey, HTTPS)

\* faulty variant: every non-empty key is sent to the object store
NeedsSignedUrlAlways(cvKey) == cvKey # <<>>

\* the branch of the mapper that awaits createSignedUrl
NeedsSignedUrl(cvKey) == cvKey # <<>> /\ ~IsAbsoluteUrl(cvKey)

\* the object the mapper returns
ExportRow(row, cvKey, cvDownloadUrl, cvError) ==
    IF endpoint = "candidates"
    THEN [candidate_id |-> row.id,
          name |-> OrElse(row.name, Str(<<>>)),
          email |-> OrElse(row.email, Str(<<>>)),
          phone |-> OrElse(row.phone, Str(<<>>)),
          role |-> OrElse(row.role, Str(role)),
          status |-> OrElse(row.status, Str(<<>>)),
          created_at |-> OrElse(row.created_at, Str(<<>>)),
          cv_key |-> Str(cvKey),
          cv_download_url |-> Str(cvDownloadUrl),
          cv_error |-> Str(cvError)]
    ELSE [application_id |-> row.id,
          name |-> OrElse(row.name, Str(<<>>)),
          email |-> OrElse(row.email, Str(<<>>)),
          phone |-> OrElse(row.phone, Str(<<>>)),
          position |-> OrElse(row.role, Str(role)),
          segment |-> OrElse(row.segment, Str(<<>>)),
          status |-> OrElse(row.status, Str(<<>>)),
          created_at |-> OrElse(row.created_at, Str(<<>>)),
          cv_key |-> Str(cvKey),
          cv_filename |-> OrElse(row.cv_filename, Str(<<>>)),
          cv_download_url |-> Str(cvDownloadUrl),
          cv_error |-> Str(cvError)]

\* the mapper from its start to its first await: a row that needs no signed
\* URL is finished at once, the others are suspended in createSignedUrl
\* with cvDownloadUrl = "" and cvError = ""
StartMapper(row) ==
    LET cvKey == CvKey(row)
    IN [settled |-> ~NeedsSignedUrl(cvKey),
        row |-> ExportRow(row, cvKey,
                          IF cvKey # <<>> /\ IsAbsoluteUrl(cvKey) THEN cvKey ELSE <<>>,
                          <<>>)]

\* the createSignedUrl calls the mappers issue, in row order
RECURSIVE IssuedCalls(_, _)
IssuedCalls(rows, i) ==
    IF i > Len(rows) THEN <<>>
    ELSE (IF NeedsSignedUrl(CvKey(rows[i]))
          THEN <<[row |-> i, bucket |-> bucket, key |-> CvKey(rows[i]),
                  expiresIn |-> expiresInSeconds]>>
          ELSE <<>>)
         \o IssuedCalls(rows, i + 1)

\* faulty variant: a failed request leaves cv_error empty
AfterSignDropError(exportRow, answer) ==
    IF answer.error # Null
    THEN exportRow
    ELSE [exportRow EXCEPT !.cv_download_url = OrElse(answer.signedUrl, Str(<<>>))]

\* the mapper after createSignedUrl has answered {data: signed, error: signError}
AfterSign(exportRow, answer) ==
    IF answer.error # Null
    THEN [exportRow EXCEPT !.cv_error = answer.error]
    ELSE [exportRow EXCEPT !.cv_download_url = OrElse(answer.signedUrl, Str(<<>>))]

\* faulty variant: a finished mapper's row is appended at the first free slot
SettleByAppend(slots, i, exportRow) ==
    LET free == CHOOSE k \in 1..Len(slots) :
                    /\ ~slots[k].settled
                    /\ \A j \in 1..(k - 1) : slots[j].settled
    IN [slots EXCEPT ![free] = [settled |-> TRUE, row |-> exportRow]]

\* Promise.all keeps the i-th mapper's value at index i
Settle(slots, i, exportRow) ==
    [slots EXCEPT ![i] = [settled |-> TRUE, row |-> exportRow]]

\* faulty variant: the handler resumes as soon as one mapper has finished
\* (Promise.race / Promise.any)
AnySettled(slots) == slots = <<>> \/ \E i \in 1..Len(slots) : slots[i].settled

\* Promise.all resolves once every mapper has finished
AllSettled(slots) == \A i \in 1..Len(slots) : slots[i].settled

----------------------------------------------------------------------------
(* Serialization and the responses.                                        *)

\* headers.map((header) => csvEscape(row[header])).join(",")
CsvLine(exportRow) ==
    join([k \in 1..Len(headers) |-> csvEscape(exportRow[headers[k]])], <<",">>)

\* csvLines.join("\n")
CsvContent(rows) ==
    join(<<join([k \in 1..Len(headers) |-> HeaderText[headers[k]]], <<",">>)>>
         \o [i \in 1..Len(rows) |-> CsvLine(rows[i])],
         <<"\n">>)

\* NextResponse.json({ error }, { status })
JsonResponse(status, error) ==
    [status |-> status, contentType |-> "application/json", error |-> error,
     body |-> <<>>, total |-> <<>>, exported |-> <<>>]

\* faulty variant: the total counts the rows kept by the filter
CountHeadersFiltered(fetched, exportRows) ==
    [total |-> NatToString(Len(exportRows)), exported |-> NatToString(Len(exportRows))]

\* "X-Total-Candidates" / "X-Total-Applications": candidates.length.toString(),
\* "X-Total-Exported": results.length.toString()
CountHeaders(fetched, exportRows) ==
    [total |-> NatToString(Len(fetched)), exported |-> NatToString(Len(exportRows))]

\* new NextResponse(csvContent, { status: 200, headers })
CsvResponse(fetched, exportRows) ==
    [status |-> 200, contentType |-> "text/csv; charset=utf-8", error |-> "",
     body |-> CsvContent(exportRows),
     total |-> CountHeaders(fetched, exportRows).total,
     exported |-> CountHeaders(fetched, exportRows).exported]

----------------------------------------------------------------------------
(* The GET handler.                                                        *)

\* the object store's answers to createSignedUrl(key, expiresIn): a signed
\* URL for the key, an error with its message, or neither
SIGNED_BASE ==
    <<"h", "t", "t", "p", "s", ":", "/", "/", "s", "/">>
NOT_FOUND ==
    <<"O", "b", "j", "e", "c", "t", " ", "n", "o", "t", " ", "f", "o", "u", "n", "d">>
SignAnswers(call) ==
    {[signedUrl |-> Str(SIGNED_BASE \o call.key), error |-> Null],
     [signedUrl |-> Undefined, error |-> Str(NOT_FOUND)],
     [signedUrl |-> Undefined, error |-> Null]}
NoAnswer == [signedUrl |-> Undefined, error |-> Undefined]

\* if (!isAuthorized(secret)) return 403
Forbidden ==
    /\ pc = "start"
    /\ ~isAuthorized(searchParams.secret)
    /\ responses' = Append(responses, JsonResponse(403, "Forbidden"))
    /\ pc' = "done"
    /\ UNCHANGED <<role, includeMissing, bucket, expiresInSeconds, queryResult,
                   candidates, filtered, results, dbQueries, storeCalls,
                   signOutcome, settleOrder>>
    /\ UNCHANGED <<requestVars, encoderVars>>

\* if (!role) return 400
MissingRole ==
    /\ pc = "start"
    /\ isAuthorized(searchParams.secret)
    /\ NormalizeRole(searchParams) = <<>>
    /\ role' = NormalizeRole(searchParams)
    /\ responses' = Append(responses,
            JsonResponse(400, IF endpoint = "candidates" THEN "Missing role"
                              ELSE "Missing position"))
    /\ pc' = "done"
    /\ UNCHANGED <<includeMissing, bucket, expiresInSeconds, queryResult,
                   candidates, filtered, results, dbQueries, storeCalls,
                   signOutcome, settleOrder>>
    /\ UNCHANGED <<requestVars, encoderVars>>

\* the handler up to `await supabaseAdmin.from(...).select(...).eq(...).order(...)`
StartQuery ==
    /\ pc = "start"
    /\ isAuthorized(searchParams.secret)
    /\ NormalizeRole(searchParams) # <<>>
    /\ role' = NormalizeRole(searchParams)
    /\ includeMissing' = ParseIncludeMissing(searchParams)
    /\ bucket' = ParseBucket(searchParams)
    /\ expiresInSeconds' = parseExpiresInSeconds(searchParams)
    /\ dbQueries' = Append(dbQueries,
            [from |-> IF endpoint = "candidates" THEN "candidates"
                      ELSE "campaign_applications",
             eq |-> role'])
    /\ pc' = "awaitQuery"
    /\ UNCHANGED <<queryResult, candidates, filtered, results, storeCalls,
                   signOutcome, settleOrder, responses>>
    /\ UNCHANGED <<requestVars, encoderVars>>

\* the query answers { error }: return 500
QueryError ==
    /\ pc = "awaitQuery"
    /\ queryResult' = "error"
    /\ responses' = Append(responses,
            JsonResponse(500, IF endpoint = "candidates"
                              THEN "Kunne ikke hente kandidater"
                              ELSE "Kunne ikke hente kampanjesoknader"))
    /\ pc' = "done"
    /\ UNCHANGED <<role, includeMissing, bucket, expiresInSeconds, candidates,
                   filtered, results, dbQueries, storeCalls, signOutcome, settleOrder>>
    /\ UNCHANGED <<requestVars, encoderVars>>

\* the query answers { data }: filter, start one mapper per retained row,
\* await Promise.all
QueryData ==
    /\ pc = "awaitQuery"
    /\ \E data \in {"data", "null"} :
        /\ queryResult' = data
        /\ candidates' = IF data = "null" THEN <<>>
                         ELSE [i \in 1..Len(table) |->
                                  [table[i] EXCEPT !.role = Str(role)]]
    /\ filtered' = FilterRows(candidates', includeMissing)
    /\ results' = [i \in 1..Len(filtered') |-> StartMapper(filtered'[i])]
    /\ storeCalls' = storeCalls \o IssuedCalls(filtered', 1)
    /\ signOutcome' = [i \in 1..Len(filtered') |-> NoAnswer]
    /\ pc' = "awaitAll"
    /\ UNCHANGED <<role, includeMissing, bucket, expiresInSeconds, dbQueries,
                   settleOrder, responses>>
    /\ UNCHANGED <<requestVars, encoderVars>>

\* createSignedUrl answers the i-th mapper, which runs to its return
SignReturn(i) ==
    /\ pc = "awaitAll"
    /\ i \in 1..Len(results)
    /\ \E c \in 1..Len(storeCalls) :
        /\ storeCalls[c].row = i
        /\ signOutcome[i] = NoAnswer
        /\ \E answer \in SignAnswers(storeCalls[c]) :
            /\ signOutcome' = [signOutcome EXCEPT ![i] = answer]
            /\ results' = Settle(results, i, AfterSign(results[i].row, answer))
    /\ settleOrder' = Append(settleOrder, i)
    /\ UNCHANGED <<pc, role, includeMissing, bucket, expiresInSeconds,
                   queryResult, candidates, filtered, dbQueries, storeCalls,
                   responses>>
    /\ UNCHANGED <<requestVars, encoderVars>>

\* `await Promise.all(...)` can resume
RespondReady == pc = "awaitAll" /\ AllSettled(results)

\* Promise.all has resolved: serialize and return 200
Respond ==
    /\ RespondReady
    /\ responses' = Append(responses,
            CsvResponse(candidates, [i \in 1..Len(results) |-> results[i].row]))
    /\ pc' = "done"
    /\ UNCHANGED <<role, includeMissing, bucket, expiresInSeconds, queryResult,
                   candidates, filtered, results, dbQueries, storeCalls,
                   signOutcome, settleOrder>>
    /\ UNCHANGED <<requestVars, encoderVars>>

GET ==
    \/ Forbidden
    \/ MissingRole
    \/ StartQuery
    \/ QueryError
    \/ QueryData
    \/ \E i \in 1..MaxRows : SignReturn(i)
    \/ Respond

----------------------------------------------------------------------------
(* Requests, configurations and database contents explored.                *)

SECRET ==
    <<"a", "b", "c">>
WRONG_SECRET ==
    <<"a", "b", "d">>
BLANK ==
    <<" ">>
MATROS ==
    <<" ", "M", "a", "t", "r", "o", "s", " ">>
KOKK ==
    <<"K", "O", "K", "K">>
MY_BUCKET ==
    <<" ", "c", "v", " ">>

Params(secret, r, position, missing, b, seconds, days) ==
    [secret |-> secret, role |-> r, position |-> position,
     includeMissing |-> missing, bucket |-> b,
     expiresInSeconds |-> seconds, expiresInDays |-> days]

\* a database row; the role column is filled in by the query
Row(id, name, status, ref) ==
    [id |-> Str(id), name |-> name, email |-> Null, phone |-> Str(<<"1">>),
     role |-> Null, segment |-> Null, status |-> status,
     created_at |-> Str(<<"t">>), ref |-> ref, cv_filename |-> Str(<<"f">>)]

RowNull == Row(<<"r", "1">>, Null, Null, Null)
RowEmpty == Row(<<"r", "2">>, Str(<<"A", "l">>), Null, Str(<<>>))
RowBlank == Row(<<"r", "3">>, Null, Str(<<"o", "k">>), Str(<<" ", "\t">>))
RowKey == Row(<<"r", "4">>, Str(<<"A", ",", "\"", "b">>), Null, Str(<<"k", "4">>))
RowPaddedKey ==
    Row(<<"r", "5">>, Null, Str(<<"x", "\n", "y">>), Str(<<" ", "k", "5", " ">>))
RowHttps == Row(<<"r", "6">>, Null, Null, Str(HTTPS \o <<"h", "/", "6">>))
RowHttpPadded ==
    Row(<<"r", "7">>, Null, Str(<<"\r">>), Str(HTTP \o <<"h", "/", "7", " ">>))
RowPaddedHttps == Row(<<"r", "8">>, Null, Null, Str(<<" ">> \o HTTPS \o <<"h", "/", "8">>))

RowUpperScheme == Row(<<"r", "9">>, Null, Null, Str(<<"H", "T", "T", "P", ":", "/", "/", "h">>))

RowPool == {RowNull, RowEmpty, RowBlank, RowKey, RowPaddedKey, RowHttps,
            RowHttpPadded, RowPaddedHttps, RowUpperScheme}
SmallRowPool == {RowBlank, RowKey, RowPaddedKey, RowHttps, RowUpperScheme}

\* the answers of the database: up to n distinct rows of the pool, any order
Tables(pool, n) ==
    {t \in UNION {[1..k -> pool] : k \in 0..n} :
        \A i, j \in 1..Len(t) : i # j => t[i] # t[j]}

Idle ==
    /\ pc = "start"
    /\ role = <<>>
    /\ includeMissing = FALSE
    /\ bucket = <<>>
    /\ expiresInSeconds = 0
    /\ queryResult = "none"
    /\ candidates = <<>>
    /\ filtered = <<>>
    /\ results = <<>>
    /\ dbQueries = <<>>
    /\ storeCalls = <<>>
    /\ signOutcome = <<>>
    /\ settleOrder = <<>>
    /\ responses = <<>>

EncoderIdle ==
    /\ value = Null
    /\ cell = <<>>

Envs ==
    [NODE_ENV : {"development", "production"},
     CAMPAIGN_EXPORT_SECRET : {Undefined, Str(<<>>), Str(SECRET)}]
Production == [NODE_ENV |-> "production", CAMPAIGN_EXPORT_SECRET |-> Str(SECRET)]

\* requests for the row pipeline: the authorization and the role vary little,
\* the filter flag, the bucket and the expiry vary
PipelineParams ==
    {Params(Str(SECRET), Null, Null, m, Null, Null, Null) :
        m \in {Null, Str(TRUE_STRING), Str(<<"T", "R", "U", "E">>)}}
    \cup {Params(Str(SECRET), Str(MATROS), Null, Str(<<"1">>), Str(MY_BUCKET),
                 Str(<<"-", "5">>), Str(<<"3">>)),
          Params(Null, Null, Null, Null, Null, Null, Null),
          Params(Str(SECRET), Str(BLANK), Str(BLANK), Null, Null, Null, Null)}

Init ==
    /\ env = Production
    /\ endpoint \in {"candidates", "campaign"}
    /\ searchParams \in PipelineParams
    /\ table \in Tables(RowPool, MaxRows)
    /\ Idle
    /\ EncoderIdle

Next == GET

Spec == Init /\ [][Next]_vars

\* requests for the authorization and validation steps: every combination of
\* mode, configured secret, supplied secret, role and position
AuthParams ==
    {Params(secret, r, position, Null, Null, Null, Null) :
        secret \in {Null, Str(<<>>), Str(SECRET), Str(WRONG_SECRET)},
        r \in {Null, Str(<<>>), Str(BLANK), Str(MATROS)},
        position \in {Null, Str(BLANK), Str(KOKK)}}

InitAuth ==
    /\ env \in Envs
    /\ endpoint \in {"candidates", "campaign"}
    /\ searchParams \in AuthParams
    /\ table \in Tables({RowKey, RowBlank}, MaxRows)
    /\ Idle
    /\ EncoderIdle

SpecAuth == InitAuth /\ [][Next]_vars

\* fairness: the runtime runs every ready continuation, and the database and
\* the object store answer every call.  The step that leaves "awaitAll" is
\* the Respond step, so fairness of Respond is stated on its guard and pc.
InitLive ==
    /\ env = Production
    /\ endpoint \in {"candidates", "campaign"}
    /\ searchParams \in PipelineParams
    /\ table \in Tables(SmallRowPool, MaxRows)
    /\ Idle
    /\ EncoderIdle

Fairness ==
    /\ WF_vars(Forbidden \/ MissingRole \/ StartQuery)
    /\ WF_vars(QueryError \/ QueryData)
    /\ WF_vars(\E i \in 1..MaxRows : SignReturn(i))
    /\ WF_pc(RespondReady /\ pc' = "done")

LiveSpec == InitLive /\ [][Next]_vars /\ Fairness

----------------------------------------------------------------------------
(* The encoder and the expiry resolver on their own.                       *)

CellChars == {"a", "\"", ",", "\n", "\r"}
OBRIEN ==
    <<"O", "'", "B", "r", "i", "e", "n", ",", " ", "J", "r", ".">>
OBRIEN_CELL ==
    <<"\"", "O", "'", "B", "r", "i", "e", "n", ",", " ", "J", "r", ".",
    "\"">>
SAY_HI ==
    <<"S", "a", "y", " ", "\"", "h", "i", "\"">>
SAY_HI_CELL ==
    <<"\"", "S", "a", "y", " ", "\"", "\"", "h", "i", "\"", "\"", "\"">>
CellValues ==
    {Null, Undefined, Bool(TRUE), Bool(FALSE), Num(0), Num(7), Num(-12), Num(1000),
     Str(OBRIEN), Str(SAY_HI)}
    \cup {Str(s) : s \in StringsUpTo(CellChars, MaxCellLen)}

InitCsv ==
    /\ value \in CellValues
    /\ cell = <<>>
    /\ env = Production
    /\ endpoint = "candidates"
    /\ searchParams = Params(Null, Null, Null, Null, Null, Null, Null)
    /\ table = <<>>
    /\ Idle

\* cell = csvEscape(value)
Escape ==
    /\ pc = "start"
    /\ cell' = csvEscape(value)
    /\ pc' = "done"
    /\ UNCHANGED <<role, includeMissing, bucket, expiresInSeconds, queryResult,
                   candidates, filtered, results, dbQueries, storeCalls,
                   signOutcome, settleOrder, responses, value>>
    /\ UNCHANGED requestVars

NextCsv == Escape

SpecCsv == InitCsv /\ [][NextCsv]_vars

ParamChars == {"-", "7", "x"}
ParamStrings ==
    StringsUpTo(ParamChars, MaxParamLen)
    \cup {<<"0">>, <<"0", "7">>, <<"2">>, <<"3">>, <<"-", "5">>, <<"1", "0", "0">>,
          <<"3", "6", "5">>, <<"3", "6", "6">>, <<" ", "7">>, <<"+", "7">>,
          <<"7", ".", "9">>, <<"7", "e", "9">>,
          <<"3", "1", "5", "3", "6", "0", "0", "0">>,
          <<"3", "1", "5", "3", "6", "0", "0", "1">>,
          <<"9", "9", "9", "9", "9", "9", "9", "9", "9", "9", "9", "9">>}
ParamValues == {Null} \cup {Str(s) : s \in ParamStrings}

InitExpiry ==
    /\ searchParams \in
        {Params(Null, Null, Null, Null, Null, seconds, days) :
            seconds \in ParamValues, days \in ParamValues}
    /\ env = Production
    /\ endpoint = "candidates"
    /\ table = <<>>
    /\ Idle
    /\ EncoderIdle

\* const expiresInSeconds = parseExpiresInSeconds(searchParams)
Resolve ==
    /\ pc = "start"
    /\ expiresInSeconds' = parseExpiresInSeconds(searchParams)
    /\ pc' = "done"
    /\ UNCHANGED <<role, includeMissing, bucket, queryResult, candidates,
                   filtered, results, dbQueries, storeCalls, signOutcome,
                   settleOrder, responses>>
    /\ UNCHANGED <<requestVars, encoderVars>>

NextExpiry == Resolve

SpecExpiry == InitExpiry /\ [][NextExpiry]_vars

----------------------------------------------------------------------------
(* What the claims speak of, stated on the request and the responses.      *)

Responded == responses # <<>>
Response == responses[1]
Responded200 == Responded /\ Response.status = 200

\* the request is authorized as the specification defines it
ClaimAuthorized ==
    \/ env.NODE_ENV = "development"
    \/ /\ env.CAMPAIGN_EXPORT_SECRET.t = "string"
       /\ env.CAMPAIGN_EXPORT_SECRET.v # <<>>
       /\ searchParams.secret = env.CAMPAIGN_EXPORT_SECRET

Present(p) == p.t = "string" /\ p.v # <<>>
AllWhiteSpace(s) == \A i \in 1..Len(s) : IsWhiteSpace(s[i])

\* the role / position the request asks for, before normalization
RequestedRole ==
    IF endpoint = "candidates"
    THEN IF Present(searchParams.role) THEN searchParams.role.v
         ELSE IF Present(searchParams.position) THEN searchParams.position.v
         ELSE DEFAULT_ROLE
    ELSE IF Present(searchParams.position) THEN searchParams.position.v
         ELSE DEFAULT_POSITION

\* a file reference that is null, empty or white space only
BlankRef(r) == r.ref.t # "string" \/ AllWhiteSpace(r.ref.v)

\* the rows the database returned
Fetched == IF queryResult = "data" THEN table ELSE <<>>

\* the rows the filter is to retain
Retained ==
    IF searchParams.includeMissing = Str(TRUE_STRING) THEN Fetched
    ELSE SelectSeq(Fetched, LAMBDA r : ~BlankRef(r))

\* the records of a CSV document: split at the line feeds outside quotes,
\* that is, those preceded by an even number of double quotes
RecordBreaks(s) ==
    {i \in 1..Len(s) :
        /\ s[i] = "\n"
        /\ Cardinality({j \in 1..(i - 1) : s[j] = "\""}) % 2 = 0}

CsvRecords(s) ==
    LET breaks == RecordBreaks(s)
        n == Cardinality(breaks)
        break(k) == IF k = 0 THEN 0
                    ELSE IF k = n + 1 THEN Len(s) + 1
                    ELSE CHOOSE i \in breaks :
                            Cardinality({j \in breaks : j < i}) = k - 1
    IN [k \in 1..(n + 1) |-> SubSeq(s, break(k - 1) + 1, break(k) - 1)]

\* the answers to the store calls of row i
CallsOf(i) == {c \in 1..Len(storeCalls) : storeCalls[c].row = i}
Failed(i) == signOutcome[i].error.t = "string"
Succeeded(i) == signOutcome[i].error = Null

\* the parameter is present and parseInt gives an integer > 0
ParsesPositive(p) ==
    p.t = "string" /\ ~parseInt(p.v).nan /\ parseInt(p.v).n > 0

\* the expiry the specification prescribes
ClaimExpiry(sp) ==
    IF ParsesPositive(sp.expiresInSeconds)
    THEN Min(parseInt(sp.expiresInSeconds.v).n, 31536000)
    ELSE IF ParsesPositive(sp.expiresInDays)
         THEN Min(DaysToSeconds(parseInt(sp.expiresInDays.v).n), 31536000)
         ELSE 31536000

\* the number of double quotes among the first i characters
QuotesBefore(str, i) == Cardinality({j \in 1..i : str[j] = "\""})

\* the identifiers of the exported rows, in order
ExportedIds == [i \in 1..Len(results) |-> results[i].row[headers[1]]]

IdsOf(rows) == [i \in 1..Len(rows) |-> rows[i].id]

\* the resolver's rule for retained row i, read on the given form of its
\* file reference
ResolverRule(i, reference) ==
    LET row == results[i].row
        calls == CallsOf(i)
    IN IF startsWith(reference, HTTP) \/ startsWith(reference, HTTPS)
       THEN /\ calls = {}
            /\ row.cv_download_url = Str(reference)
            /\ row.cv_error = Str(<<>>)
       ELSE IF AllWhiteSpace(reference)
       THEN /\ calls = {}
            /\ row.cv_download_url = Str(<<>>)
            /\ row.cv_error = Str(<<>>)
       ELSE /\ Cardinality(calls) = 1
            /\ \A c \in calls :
                  storeCalls[c] = [row |-> i, bucket |-> bucket, key |-> reference,
                                   expiresIn |-> ClaimExpiry(searchParams)]

\* the file reference of retained row i as stored (null reads as empty)
RawReference(i) == IF filtered[i].ref.t = "string" THEN filtered[i].ref.v ELSE <<>>

\* the fixed header line
HeaderLine ==
    join([k \in 1..Len(headers) |-> HeaderText[headers[k]]], <<",">>)

\* every createSignedUrl call issued has been answered
AllAnswered ==
    \A c \in 1..Len(storeCalls) : signOutcome[storeCalls[c].row] # NoAnswer

----------------------------------------------------------------------------
(* The claims.                                                             *)

(* C1: a request passes the authorization step exactly when the process
   runs in development mode, or a non-empty export secret is configured and
   the supplied secret equals it exactly; every other request is answered
   403 {"error":"Forbidden"}, in particular every request outside development
   mode when no secret is configured, whatever secret it supplies. *)
C1_Authorization ==
    pc # "start" =>
        /\ ClaimAuthorized <=> ~(Responded /\ Response.status = 403)
        /\ ~ClaimAuthorized => responses = <<JsonResponse(403, "Forbidden")>>
        /\ (env.NODE_ENV # "development" /\ ~Present(env.CAMPAIGN_EXPORT_SECRET))
              => responses = <<JsonResponse(403, "Forbidden")>>

\* C1: an empty configured secret matched by an empty supplied secret is refused
C1_Witness ==
    /\ pc = "done"
    /\ env.NODE_ENV = "production"
    /\ env.CAMPAIGN_EXPORT_SECRET = Str(<<>>)
    /\ searchParams.secret = Str(<<>>)
    /\ responses = <<JsonResponse(403, "Forbidden")>>

\* the state part of C2
C2_State ==
    /\ Len(responses) <= 1
    /\ ~ClaimAuthorized =>
          /\ dbQueries = <<>> /\ storeCalls = <<>>
          /\ pc # "start" => pc = "done" /\ Responded /\ Response.status = 403
    /\ (ClaimAuthorized /\ AllWhiteSpace(RequestedRole)) =>
          /\ dbQueries = <<>> /\ storeCalls = <<>>
          /\ pc # "start" => pc = "done" /\ Responded /\ Response.status = 400
    /\ queryResult = "error" =>
          /\ storeCalls = <<>> /\ Len(dbQueries) = 1
          /\ pc = "done" /\ Responded /\ Response.status = 500
    /\ (Responded /\ Response.status # 200) =>
          /\ pc = "done"
          /\ Response.status \in {403, 400, 500}
          /\ Response.contentType = "application/json"
          /\ Response.error # ""
          /\ Response.body = <<>>
          /\ \/ ~ClaimAuthorized
             \/ AllWhiteSpace(RequestedRole)
             \/ queryResult = "error"

(* C2: a request-level failure (unauthorized, role or position empty after
   normalization, database query error) is terminal: it yields the single
   response of the request (403, 400, 500) with a JSON error body and no CSV
   content; no database query is issued for an unauthorized or role-less
   request, no signed-URL request after a failed query, and no step of the
   handler follows the response. *)
C2_FailureIsTerminal == [](C2_State) /\ [][pc # "done"]_vars

\* C2: a role of white space only is answered 400 before any query
C2_Witness ==
    /\ ClaimAuthorized
    /\ endpoint = "candidates"
    /\ searchParams.role = Str(BLANK)
    /\ searchParams.position = Str(KOKK)
    /\ responses = <<JsonResponse(400, "Missing role")>>
    /\ dbQueries = <<>>

(* C3: a failed signed-URL request of one row never becomes an HTTP failure
   and never changes another row: the status is 200, the failed row has an
   empty cv_download_url and the failure's non-empty message as cv_error, and
   every row whose request succeeded has its signed URL as cv_download_url and
   an empty cv_error; the CSV body carries exactly these rows. *)
C3_RowIndependence ==
    (pc = "done" /\ queryResult \in {"data", "null"}) =>
        /\ Responded200
        /\ Len(results) = Len(Retained)
        /\ \A i \in 1..Len(results) :
            LET row == results[i].row
            IN /\ Failed(i) =>
                    /\ row.cv_download_url = Str(<<>>)
                    /\ row.cv_error = signOutcome[i].error
                    /\ row.cv_error.v # <<>>
               /\ Succeeded(i) =>
                    /\ row.cv_download_url =
                          (IF signOutcome[i].signedUrl.t = "string"
                           THEN signOutcome[i].signedUrl ELSE Str(<<>>))
                    /\ row.cv_error = Str(<<>>)
        /\ CsvRecords(Response.body) =
              <<CsvRecords(Response.body)[1]>>
              \o [i \in 1..Len(results) |-> CsvLine(results[i].row)]

\* C3: one row's request fails, another's succeeds, the status is 200
C3_Witness ==
    /\ Responded200
    /\ \E a, b \in 1..Len(results) :
        /\ Failed(a)
        /\ Succeeded(b)
        /\ results[b].row.cv_download_url = Str(SIGNED_BASE \o <<"k", "5">>)
        /\ results[a].row.cv_error = Str(NOT_FOUND)

(* C4: whatever the order in which the concurrent signed-URL requests
   complete, the i-th data record of the CSV is the projection of the i-th
   retained row: same identifier and file reference, with that row's own
   resolution result. *)
C4_OrderPreserved ==
    Responded200 =>
        LET records == CsvRecords(Response.body)
        IN /\ Len(records) = 1 + Len(Retained)
           /\ \A i \in 1..Len(Retained) :
                LET source == [Retained[i] EXCEPT !.role = Str(role)]
                    key == IF source.ref.t = "string" THEN trim(source.ref.v)
                           ELSE <<>>
                    own == signOutcome[i]
                    url == IF CallsOf(i) = {}
                           THEN (IF startsWith(key, HTTP) \/ startsWith(key, HTTPS)
                                 THEN key ELSE <<>>)
                           ELSE IF own.signedUrl.t = "string" THEN own.signedUrl.v
                           ELSE <<>>
                    error == IF CallsOf(i) # {} /\ own.error.t = "string"
                             THEN own.error.v ELSE <<>>
                IN /\ \A c \in CallsOf(i) : storeCalls[c].key = key
                   /\ records[i + 1] = CsvLine(ExportRow(source, key, url, error))

\* C4: the second row's request completes before the first row's
C4_Witness ==
    /\ Responded200
    /\ settleOrder = <<2, 1>>
    /\ Failed(1)
    /\ Succeeded(2)
    /\ signOutcome[2].signedUrl.t = "string"

(* C5: unless includeMissing is exactly "true", no exported row comes from a
   fetched row whose file reference is null, empty or white space only, and
   every fetched row with a non-blank reference is exported; with
   includeMissing "true" every fetched row is exported. *)
C5_Filtering ==
    Responded200 =>
        /\ ExportedIds = IdsOf(Retained)
        /\ Len(CsvRecords(Response.body)) = 1 + Len(Retained)
        /\ searchParams.includeMissing # Str(TRUE_STRING) =>
              /\ \A i \in 1..Len(table) :
                    BlankRef(table[i]) =>
                        \A k \in 1..Len(results) : ExportedIds[k] # table[i].id
              /\ \A i \in 1..Len(Fetched) :
                    ~BlankRef(table[i]) =>
                        \E k \in 1..Len(results) : ExportedIds[k] = table[i].id
        /\ searchParams.includeMissing = Str(TRUE_STRING) =>
              ExportedIds = IdsOf(Fetched)

\* C5: includeMissing=TRUE is not "true": the blank row is dropped
C5_Witness ==
    /\ Responded200
    /\ searchParams.includeMissing = Str(<<"T", "R", "U", "E">>)
    /\ queryResult = "data"
    /\ table = <<RowBlank, RowKey>>
    /\ ExportedIds = <<RowKey.id>>

(* C6, as stated: a file reference beginning with http:// or https:// is
   passed through verbatim as cv_download_url with no object-store call, an
   empty or white-space reference leads to no call and to empty
   cv_download_url and cv_error, and any other reference causes exactly one
   signed-URL request for that key in the requested container with the
   resolved expiry. *)
C6_AsStated ==
    Responded200 => \A i \in 1..Len(filtered) : ResolverRule(i, RawReference(i))

(* C6, amended: the rule holds of the file reference with its surrounding
   white space removed: the trimmed reference is what is tested for http://
   and https://, what is passed through as cv_download_url, and what is sent
   as the key of the one signed-URL request. *)
C6_Resolver ==
    Responded200 =>
        /\ Len(filtered) = Len(Retained)
        /\ \A i \in 1..Len(filtered) : ResolverRule(i, trim(RawReference(i)))
        /\ Len(storeCalls) = Cardinality({i \in 1..Len(filtered) : CallsOf(i) # {}})

\* C6: a padded URL is passed through trimmed, a padded key is requested trimmed
C6_Witness ==
    /\ Responded200
    /\ searchParams.expiresInSeconds = Str(<<"-", "5">>)
    /\ table = <<RowHttpPadded, RowPaddedKey>>
    /\ queryResult = "data"
    /\ results[1].row.cv_download_url = Str(HTTP \o <<"h", "/", "7">>)
    /\ storeCalls = <<[row |-> 2, bucket |-> <<"c", "v">>, key |-> <<"k", "5">>,
                       expiresIn |-> 259200]>>

(* C7: the resolved expiry is a positive integer no greater than 31,536,000:
   min(expiresInSeconds, 31,536,000) when that parameter parses to an
   integer > 0, else min(expiresInDays * 86,400, 31,536,000) when that one
   parses to an integer > 0, else 31,536,000; an invalid, zero or negative
   expiresInSeconds falls through to expiresInDays (seconds=-5 with days=3
   gives 259,200). *)
C7_Expiry ==
    pc = "done" =>
        LET seconds == searchParams.expiresInSeconds
            days == searchParams.expiresInDays
        IN /\ expiresInSeconds \in 1..31536000
           /\ expiresInSeconds = ClaimExpiry(searchParams)
           /\ seconds = Str(<<"1", "0", "0">>) => expiresInSeconds = 100
           /\ seconds = Str(<<"9", "9", "9", "9", "9", "9", "9", "9", "9", "9", "9", "9">>)
                 => expiresInSeconds = 31536000
           /\ (seconds = Null /\ days = Str(<<"2">>)) => expiresInSeconds = 172800
           /\ (seconds = Null /\ days = Null) => expiresInSeconds = 31536000
           /\ (seconds = Str(<<"-", "5">>) /\ days = Str(<<"3">>))
                 => expiresInSeconds = 259200
           /\ (seconds \in {Str(<<"0">>), Str(<<"x">>), Str(<<"-", "7">>)}
                  /\ days = Str(<<"7">>))
                 => expiresInSeconds = 604800
           /\ (seconds = Str(<<"x", "7">>) /\ days = Str(<<"3", "6", "6">>))
                 => expiresInSeconds = 31536000

\* C7: seconds=-5 falls through to days=3
C7_Witness ==
    /\ pc = "done"
    /\ searchParams.expiresInSeconds = Str(<<"-", "5">>)
    /\ searchParams.expiresInDays = Str(<<"3">>)
    /\ expiresInSeconds = 259200

(* C8: on a 200 response X-Total-Applications / X-Total-Candidates is the
   number of rows the store returned, X-Total-Exported the number of rows the
   filter retained, and the CSV body is the fixed header line followed by
   exactly X-Total-Exported data records. *)
C8_Counts ==
    Responded200 =>
        LET records == CsvRecords(Response.body)
        IN /\ Response.total = NatToString(Len(Fetched))
           /\ Response.exported = NatToString(Len(Retained))
           /\ records[1] = HeaderLine
           /\ Len(records) = 1 + Len(Retained)
           /\ Response.exported = <<"0">> => Response.body = HeaderLine
           /\ parseInt(Response.exported).n = Len(records) - 1

\* C8: two fetched rows, one without file reference, flag unset
C8_Witness ==
    /\ Responded200
    /\ endpoint = "campaign"
    /\ searchParams.includeMissing = Null
    /\ table = <<RowKey, RowEmpty>>
    /\ queryResult = "data"
    /\ Response.total = <<"2">>
    /\ Response.exported = <<"1">>
    /\ Len(CsvRecords(Response.body)) = 2

(* C9: csvEscape maps null and undefined to the empty string; any other
   value is stringified, and the string is wrapped in double quotes with
   every double quote in it doubled exactly when it contains a double quote,
   comma, carriage return or line feed; otherwise it is returned unchanged. *)
C9_CsvEscape ==
    pc = "done" =>
        /\ value.t \in {"null", "undefined"} => cell = <<>>
        /\ value.t \notin {"null", "undefined"} =>
            LET str == String(value)
                n == Len(str)
            IN IF \E i \in 1..n : str[i] \in {"\"", ",", "\r", "\n"}
               THEN /\ Len(cell) = n + 2 + QuotesBefore(str, n)
                    /\ cell[1] = "\""
                    /\ cell[Len(cell)] = "\""
                    /\ \A i \in 1..n :
                        LET at == 1 + i + QuotesBefore(str, i - 1)
                        IN /\ cell[at] = str[i]
                           /\ str[i] = "\"" => cell[at + 1] = "\""
               ELSE cell = str
        /\ value = Num(-12) => cell = <<"-", "1", "2">>
        /\ value = Bool(TRUE) => cell = <<"t", "r", "u", "e">>
        /\ value = Str(OBRIEN) => cell = OBRIEN_CELL
        /\ value = Str(SAY_HI) => cell = SAY_HI_CELL

\* C9: a value with a double quote and a carriage return
C9_Witness ==
    /\ pc = "done"
    /\ value = Str(<<"a", "\"", "\r">>)
    /\ cell = <<"\"", "a", "\"", "\"", "\r", "\"">>

(* C10: the 200 response is produced only after the resolution of every
   retained row has completed, never early or with part of the rows; one
   resolution that never completes keeps the response from being produced;
   and when the database and the object store answer every call, the request
   eventually produces exactly one response. *)
C10_FanIn ==
    /\ [](Responded200 => AllAnswered /\ Len(results) = Len(Retained))
    /\ [](~AllAnswered => ~Responded)
    /\ [][responses' # responses => AllAnswered]_vars
    /\ [](Len(responses) <= 1)
    /\ <>[](Len(responses) = 1)

\* C10: the handler waits with one request answered and one outstanding
C10_Witness ==
    /\ pc = "awaitAll"
    /\ ~Responded
    /\ Len(storeCalls) = 2
    /\ signOutcome[storeCalls[1].row] # NoAnswer
    /\ signOutcome[storeCalls[2].row] = NoAnswer

====
